---- MODULE Spec2Model ----
(***************************************************************************)
(* Model of the SUSP backend query path (src/src/utils/queries.py,         *)
(* src/src/utils/helpers.py, src/src/models).                              *)
(*                                                                         *)
(* The tables are ORM tables over PostgreSQL.  A table is modelled by the  *)
(* rows it holds; a query without ORDER BY returns the rows in storage     *)
(* order, which is the order of the sequence.                              *)
(*                                                                         *)
(* A nullable column holds a one-element sequence <<v>> or the empty       *)
(* sequence (None).  Coordinates are whole degrees.                        *)
(***************************************************************************)
EXTENDS Integers, Sequences, FiniteSets, Bags, TLC

VARIABLES
    general_infos,    \* table general_infos: set of GeneralInfo rows, key cnes
    service_records,  \* table service_records: sequence of ServiceRecord rows
    request,          \* the call in progress / last served
    unit_list,        \* get_near_unit_list: local unit_list when the loop ends
    response,         \* what the last call returned or raised
    medical_services, \* table medical_services: sequence of MedicalService rows
    calls             \* the requests being served, one per worker, query by query

vars == <<general_infos, service_records, request, unit_list, response,
          medical_services, calls>>

----------------------------------------------------------------------------
(* Program constant and model bounds *)

MAX_UNITIES == 20

\* longest service_records table
MaxRecords == 22
\* longest service_records table with arbitrary rows
MaxSmall == 3

CnesCodes == {1, 2}
\* the (service, classification) pairs of the stored records
ServicePairs == {<<1, 1>>, <<1, 2>>}
\* the (latitude, longitude) columns of a stored establishment: both null,
\* one null, one 0.0, and two places
Locations ==
    {<<<<>>, <<>>>>, <<<<>>, <<1>>>>, <<<<1>>, <<>>>>,
     <<<<0>>, <<1>>>>, <<<<1>>, <<0>>>>, <<<<1>>, <<1>>>>, <<<<-1>>, <<1>>>>}
Origins == {[lat |-> 0, lng |-> 0], [lat |-> 1, lng |-> 1]}

None == <<>>
Some(v) == <<v>>

Min(a, b) == IF a <= b THEN a ELSE b

----------------------------------------------------------------------------
(* Rows *)

UnitNames == <<"UBS A", "UBS B">>
UnitStreets == <<"Rua A", "Rua B">>
UnitKinds == <<"UBS", "Hospital">>

\* src/src/models/tables.py: GeneralInfo
GeneralInfo(c, lat, lng) ==
    [cnes |-> c, name |-> UnitNames[c], address |-> UnitStreets[c],
     number |-> "10", district |-> "Centro", kind |-> UnitKinds[c],
     latitude |-> lat, longitude |-> lng]

\* src/src/models/tables.py: ServiceRecord (id is the autoincrement key)
ServiceRecord(i, c, srv, clf) ==
    [id |-> i, cnes |-> c, service |-> srv, classification |-> clf]

\* src/src/models/endpoints.py: UnitRequest (the fields the query reads)
UnitRequest(srv, clf) == [srv |-> srv, clf |-> clf]

\* src/src/models/helpers.py: Coordinate
Coordinate(lat, lng) == [lat |-> lat, lng |-> lng]

\* src/src/models/endpoints.py: UnitItem
UnitItem(c, name, address, type, distance) ==
    [cnes |-> c, name |-> name, address |-> address, type |-> type,
     distance |-> distance]

----------------------------------------------------------------------------
(* Helpers *)

\* geopy.distance.geodesic on whole-degree coordinates: the squared
\* separation in degrees, which orders points as the distance in km does on
\* this grid; 0 exactly for equal points.
geodesic(a, b) ==
    (a[1] - b[1]) * (a[1] - b[1]) + (a[2] - b[2]) * (a[2] - b[2])

\* Variant: destination_coords = (destination.lat, destination.lat)
get_distance_lat_twice(origin, destination) ==
    LET origin_coords == <<origin.lat, origin.lng>>
        destination_coords == <<destination.lat, destination.lat>>
    IN  geodesic(origin_coords, destination_coords)

\* Variant: origin_coords = (origin.lng, origin.lat)
get_distance_lng_first(origin, destination) ==
    LET origin_coords == <<origin.lng, origin.lat>>
        destination_coords == <<destination.lat, destination.lng>>
    IN  geodesic(origin_coords, destination_coords)

\* src/src/utils/helpers.py: get_distance
get_distance(origin, destination) ==
    LET origin_coords == <<origin.lat, origin.lng>>
        destination_coords == <<destination.lat, destination.lng>>
    IN  geodesic(origin_coords, destination_coords)

\* Python truth value of a nullable Float column: None and 0.0 are false
truthy(x) == x /= None /\ x[1] /= 0

----------------------------------------------------------------------------
(* Queries of get_near_unit_list *)

\* Variant: the filter compares the service code alone
query_by_service_only(table, params) ==
    SelectSeq(table, LAMBDA r : r.service = params.srv)

\* session.query(ServiceRecord).filter(service == srv, classification == clf).all()
query_service_records(table, params) ==
    SelectSeq(table, LAMBDA r : r.service = params.srv
                                /\ r.classification = params.clf)

\* session.query(GeneralInfo).filter(GeneralInfo.cnes == cnes).first():
\* the row, or None
query_general_info(table, cnes) ==
    IF \E u \in table : u.cnes = cnes
    THEN Some(CHOOSE u \in table : u.cnes = cnes)
    ELSE None

\* The outcomes of one pass of the loop body
Append_(item) == [kind |-> "append", items |-> <<item>>]
Skip == [kind |-> "continue", items |-> <<>>]
Raise == [kind |-> "raise", items |-> <<>>]

\* "if not unit.latitude or not unit.longitude"
lacks_coordinates(unit) == ~truthy(unit.latitude) \/ ~truthy(unit.longitude)

\* Variant: no test of the coordinates, a missing one read as 0
\* ("unit.latitude or 0")
visit_record_none_as_zero(infos, record, origin) ==
    LET found == query_general_info(infos, record.cnes)
        or_zero(x) == IF x = None THEN 0 ELSE x[1]
    IN  IF found /= None
        THEN LET unit == found[1]
                 destination ==
                     Coordinate(or_zero(unit.latitude), or_zero(unit.longitude))
             IN  Append_(UnitItem(unit.cnes, unit.name,
                           <<unit.address, unit.number, unit.district>>,
                           unit.kind, get_distance(origin, destination)))
        ELSE Skip

\* Variant: no isinstance test, so a missing unit raises at unit.latitude
visit_record_raise_when_missing(infos, record, origin) ==
    LET found == query_general_info(infos, record.cnes)
    IN  IF found = None
        THEN Raise
        ELSE LET unit == found[1]
             IN  IF lacks_coordinates(unit)
                 THEN Skip
                 ELSE Append_(UnitItem(unit.cnes, unit.name,
                               <<unit.address, unit.number, unit.district>>,
                               unit.kind,
                               get_distance(origin,
                                   Coordinate(unit.latitude[1], unit.longitude[1]))))

\* One pass of "for record in service_records": the unit's query, the two
\* skips, the distance and the UnitItem
visit_record(infos, record, origin) ==
    LET found == query_general_info(infos, record.cnes)
    IN  IF found /= None
        THEN LET unit == found[1]
             IN  IF lacks_coordinates(unit)
                 THEN Skip
                 ELSE LET destination ==
                              Coordinate(unit.latitude[1], unit.longitude[1])
                          distance == get_distance(origin, destination)
                      IN  Append_(UnitItem(unit.cnes, unit.name,
                                    <<unit.address, unit.number, unit.district>>,
                                    unit.kind, distance))
        ELSE Skip

\* The loop over the query's rows from row i on, unit_list so far in acc.
\* An exception in a pass ends the call.
RECURSIVE near_unit_loop(_, _, _, _, _)
near_unit_loop(infos, records, origin, i, acc) ==
    IF i > Len(records)
    THEN [raised |-> FALSE, unit_list |-> acc]
    ELSE LET pass == visit_record(infos, records[i], origin)
         IN  IF pass.kind = "raise"
             THEN [raised |-> TRUE, unit_list |-> acc]
             ELSE near_unit_loop(infos, records, origin, i + 1,
                                 acc \o pass.items)

\* Variant: no ordering, x goes last
insert_unsorted(list, x) == Append(list, x)

\* Variant: an unstable order, x goes before the elements of equal key
RECURSIVE insert_before_equal(_, _)
insert_before_equal(list, x) ==
    IF list = <<>> THEN <<x>>
    ELSE IF list[Len(list)].distance < x.distance
         THEN Append(list, x)
         ELSE Append(insert_before_equal(SubSeq(list, 1, Len(list) - 1), x),
                     list[Len(list)])

\* Where sorted() puts x in an already sorted list: after every element
\* whose key is not greater (Python's sort is stable)
RECURSIVE insert_sorted(_, _)
insert_sorted(list, x) ==
    IF list = <<>> THEN <<x>>
    ELSE IF list[Len(list)].distance <= x.distance
         THEN Append(list, x)
         ELSE Append(insert_sorted(SubSeq(list, 1, Len(list) - 1), x),
                     list[Len(list)])

\* Variant: sorted(..., reverse=True), farthest first
RECURSIVE insert_descending(_, _)
insert_descending(list, x) ==
    IF list = <<>> THEN <<x>>
    ELSE IF list[Len(list)].distance >= x.distance
         THEN Append(list, x)
         ELSE Append(insert_descending(SubSeq(list, 1, Len(list) - 1), x),
                     list[Len(list)])

RECURSIVE sorted_descending(_)
sorted_descending(list) ==
    IF list = <<>> THEN <<>>
    ELSE insert_descending(sorted_descending(SubSeq(list, 1, Len(list) - 1)),
                           list[Len(list)])

\* sorted(unit_list, key=lambda x: x.distance)
RECURSIVE sorted_by_distance(_)
sorted_by_distance(list) ==
    IF list = <<>> THEN <<>>
    ELSE insert_sorted(sorted_by_distance(SubSeq(list, 1, Len(list) - 1)),
                       list[Len(list)])

\* Variant: [:MAX_UNITIES + 1]
truncate_one_more(list) == SubSeq(list, 1, Min(MAX_UNITIES + 1, Len(list)))

\* [:MAX_UNITIES]
truncate(list) == SubSeq(list, 1, Min(MAX_UNITIES, Len(list)))

Returned(body) == [status |-> "returned", body |-> body]
Raised == [status |-> "raised", body |-> <<>>]

\* Variant: an empty result raises (as get_unit does for a missing unit)
get_near_unit_list_raise_when_empty(infos, records, params, origin) ==
    LET service_rows == query_service_records(records, params)
        loop == near_unit_loop(infos, service_rows, origin, 1, <<>>)
    IN  [loop |-> loop.unit_list,
         answer |-> IF loop.raised \/ loop.unit_list = <<>>
                    THEN Raised
                    ELSE Returned(truncate(sorted_by_distance(loop.unit_list)))]

\* src/src/utils/queries.py: get_near_unit_list.  loop is the value of the
\* local unit_list after the for loop, answer what the call returns or raises
get_near_unit_list(infos, records, params, origin) ==
    LET service_rows == query_service_records(records, params)
        loop == near_unit_loop(infos, service_rows, origin, 1, <<>>)
    IN  [loop |-> loop.unit_list,
         answer |-> IF loop.raised
                    THEN Raised
                    ELSE Returned(truncate(sorted_by_distance(loop.unit_list)))]

----------------------------------------------------------------------------
(* Initial tables *)

GeneralInfoRows(c) ==
    {GeneralInfo(c, at[1], at[2]) : at \in Locations}

OptionalRow(c) == {{}} \cup {{u} : u \in GeneralInfoRows(c)}

\* every table with at most one row per cnes code (cnes is the primary key)
GeneralInfoTables ==
    {UNION {pick[c] : c \in CnesCodes} :
        pick \in {f \in [CnesCodes -> UNION {OptionalRow(c) : c \in CnesCodes}] :
                    \A c \in CnesCodes : f[c] \in OptionalRow(c)}}

RecordKinds ==
    {[cnes |-> c, service |-> p[1], classification |-> p[2]] :
        c \in CnesCodes, p \in ServicePairs}

\* the rows of a table, numbered by the autoincrement key
Numbered(kinds) ==
    [i \in 1..Len(kinds) |->
        ServiceRecord(i, kinds[i].cnes, kinds[i].service, kinds[i].classification)]

\* n rows repeating the rows of base in turn
Cyclic(base, n) == [i \in 1..n |-> base[((i - 1) % Len(base)) + 1]]

\* every table of at most MaxSmall rows
SmallTables ==
    UNION {[1..n -> RecordKinds] : n \in 0..MaxSmall}

\* the tables of more than MaxSmall rows counted here: many establishments
\* (in turn) offering one service
LongTables ==
    {Cyclic(base, n) :
        base \in UNION {[1..k -> {r \in RecordKinds : r.service = 1 /\ r.classification = 1}]
                          : k \in 1..2},
        n \in (MaxSmall + 1)..MaxRecords}

ServiceRecordTables == {Numbered(t) : t \in SmallTables \cup LongTables}

UnitRequests == {UnitRequest(srv, 1) : srv \in {1, 2}}

NoRequest == [op |-> "none", params |-> UnitRequest(0, 0), origin |-> Coordinate(0, 0)]
NoResponse == [status |-> "none", body |-> <<>>]

----------------------------------------------------------------------------
(* Specification *)

Init ==
    /\ general_infos \in GeneralInfoTables
    /\ service_records \in ServiceRecordTables
    /\ request = NoRequest
    /\ unit_list = <<>>
    /\ response = NoResponse
    /\ medical_services = <<>>
    /\ calls = <<>>

\* A call get_near_unit_list(session, params, origin)
GetNearUnitList ==
    \E params \in UnitRequests, origin \in Origins :
        LET call == get_near_unit_list(general_infos, service_records, params, origin)
        IN  /\ request' = [op |-> "get_near_unit_list", params |-> params,
                           origin |-> origin]
            /\ unit_list' = call.loop
            /\ response' = call.answer
            /\ UNCHANGED <<general_infos, service_records, medical_services, calls>>

Next == GetNearUnitList

Spec == Init /\ [][Next]_vars

----------------------------------------------------------------------------
(* Vocabulary of the properties, stated over the tables and the request *)

Served == request.op = "get_near_unit_list"

\* the rows of service_records with the requested (service, classification)
MatchingIds ==
    {i \in 1..Len(service_records) :
        /\ service_records[i].service = request.params.srv
        /\ service_records[i].classification = request.params.clf}

\* the matching rows that reference establishment c
MatchingOf(c) == {i \in MatchingIds : service_records[i].cnes = c}

HasRow(c) == \E u \in general_infos : u.cnes = c
RowOf(c) == CHOOSE u \in general_infos : u.cnes = c

\* both coordinates stored (not null)
HasCoordinates(c) ==
    HasRow(c) /\ RowOf(c).latitude /= <<>> /\ RowOf(c).longitude /= <<>>

\* both coordinates stored and neither is 0.0
HasNonZeroCoordinates(c) ==
    HasCoordinates(c) /\ RowOf(c).latitude /= <<0>> /\ RowOf(c).longitude /= <<0>>

\* the positions of a list of UnitItem that hold establishment c
EntriesOf(list, c) == {k \in 1..Len(list) : list[k].cnes = c}

BagOfSeq(list) ==
    [x \in {list[k] : k \in 1..Len(list)} |->
        Cardinality({k \in 1..Len(list) : list[k] = x})]

\* the entries built by the loop that the answer leaves out
LeftOut == BagToSet(BagOfSeq(unit_list) (-) BagOfSeq(response.body))

\* the entries of a list at distance d, in the list's order
AtDistance(list, d) == SelectSeq(list, LAMBDA x : x.distance = d)

CnesOf(list) == [k \in 1..Len(list) |-> list[k].cnes]

\* the establishments of the matching rows, in the order the query returns them
MatchingCnes ==
    CnesOf(SelectSeq(service_records,
                     LAMBDA r : /\ r.service = request.params.srv
                                /\ r.classification = request.params.clf))

IsPrefix(a, b) == Len(a) <= Len(b) /\ a = SubSeq(b, 1, Len(a))

----------------------------------------------------------------------------
(* C1..C10: get_near_unit_list *)

\* C1: the answer has exactly min(MAX_UNITIES, n) entries, n the number of
\* entries built for the records that survived the loop's skips; they are
\* entries the loop built, and no entry left out is strictly closer than a
\* returned one.
C1_ClosestUnits ==
    Served =>
        /\ response.status = "returned"
        /\ Len(response.body) = Min(MAX_UNITIES, Len(unit_list))
        /\ BagOfSeq(response.body) \sqsubseteq BagOfSeq(unit_list)
        /\ \A e \in LeftOut : \A k \in 1..Len(response.body) :
               ~(e.distance < response.body[k].distance)

\* more than MAX_UNITIES survivors, one left out strictly farther than a
\* returned one
C1_Witness ==
    /\ Served
    /\ Len(unit_list) > MAX_UNITIES
    /\ Len(response.body) = MAX_UNITIES
    /\ \E e \in LeftOut : e.distance > response.body[1].distance

\* C2: the answer never has more than MAX_UNITIES entries, however many
\* ServiceRecord rows match the requested pair.
C2_AtMostMaxUnities == Served => Len(response.body) <= MAX_UNITIES

C2_Witness ==
    /\ Served
    /\ Cardinality(MatchingIds) > MAX_UNITIES
    /\ response.status = "returned"
    /\ Len(response.body) = MAX_UNITIES

\* C3: the answer is sorted non-decreasing by distance: each entry's distance
\* is at most the next entry's.
C3_SortedByDistance ==
    Served =>
        \A k \in 1..(Len(response.body) - 1) :
            response.body[k].distance <= response.body[k + 1].distance

\* the loop met a farther establishment before a closer one
C3_Witness ==
    /\ Served
    /\ \E k \in 1..(Len(unit_list) - 1) :
           unit_list[k].distance > unit_list[k + 1].distance
    /\ Len(response.body) >= 2
    /\ response.body[1].distance < response.body[Len(response.body)].distance

\* C4: an establishment whose latitude or longitude is null never appears in
\* the answer, even when a matching ServiceRecord references it.
C4_NoNullCoordinates ==
    Served =>
        \A k \in 1..Len(response.body) : HasCoordinates(response.body[k].cnes)

\* a matching record references an establishment with a null coordinate,
\* another one is answered
C4_Witness ==
    /\ Served
    /\ \E i \in MatchingIds :
           HasRow(service_records[i].cnes)
           /\ ~HasCoordinates(service_records[i].cnes)
    /\ response.status = "returned"
    /\ response.body /= <<>>

\* C5: every matching record whose establishment exists and has both
\* coordinates stored (0 included) contributes one entry before truncation;
\* with at most MAX_UNITIES such records the answer has one entry per record.
C5_EveryLocatedRecordContributes ==
    Served =>
        LET located == {i \in MatchingIds : HasCoordinates(service_records[i].cnes)}
        IN  /\ Len(unit_list) = Cardinality(located)
            /\ Cardinality(located) <= MAX_UNITIES =>
                   Len(response.body) = Cardinality(located)

\* C6: a matching record whose establishment has no GeneralInfo row is
\* skipped without raising: the call returns, and every other matching record
\* of an establishment with usable coordinates still has its entry.
C6_DanglingSkipped ==
    (Served /\ \E i \in MatchingIds : ~HasRow(service_records[i].cnes)) =>
        /\ response.status = "returned"
        /\ \A c \in CnesCodes :
               HasNonZeroCoordinates(c) =>
                   Cardinality(EntriesOf(unit_list, c)) = Cardinality(MatchingOf(c))
        /\ Len(unit_list) <= MAX_UNITIES =>
               BagOfSeq(response.body) = BagOfSeq(unit_list)

\* a dangling record comes first, a record that is answered after it
C6_Witness ==
    /\ Served
    /\ \E i \in MatchingIds, j \in MatchingIds :
           /\ i < j
           /\ ~HasRow(service_records[i].cnes)
           /\ HasNonZeroCoordinates(service_records[j].cnes)
           /\ \E k \in 1..Len(response.body) :
                  response.body[k].cnes = service_records[j].cnes

\* C7: every entry comes from a ServiceRecord whose service equals srv and
\* whose classification equals clf: an establishment has at most as many
\* entries as it has records matching both fields.
C7_BothFieldsMatch ==
    Served =>
        \A c \in CnesCodes :
            /\ Cardinality(EntriesOf(unit_list, c)) <= Cardinality(MatchingOf(c))
            /\ Cardinality(EntriesOf(response.body, c)) <= Cardinality(MatchingOf(c))

\* a located establishment has only a record that matches one field; another
\* establishment is answered
C7_Witness ==
    /\ Served
    /\ \E i \in 1..Len(service_records) :
           /\ service_records[i].service = request.params.srv
           /\ service_records[i].classification /= request.params.clf
           /\ HasNonZeroCoordinates(service_records[i].cnes)
           /\ MatchingOf(service_records[i].cnes) = {}
    /\ response.body /= <<>>

\* C8: no de-duplication: k matching records that reference the same
\* establishment with coordinates yield k entries before truncation.
C8_NoDeduplication ==
    Served =>
        \A c \in CnesCodes :
            HasCoordinates(c) =>
                Cardinality(EntriesOf(unit_list, c)) = Cardinality(MatchingOf(c))

\* C9: stable sort on distance alone: the entries built by the loop are in
\* the order of the query's rows, and the answer's entries at one distance
\* are the first of the loop's entries at that distance, in the same order.
C9_StableTies ==
    Served =>
        /\ CnesOf(unit_list) =
               SelectSeq(MatchingCnes,
                         LAMBDA c : \E k \in 1..Len(unit_list) : unit_list[k].cnes = c)
        /\ \A k \in 1..Len(response.body) :
               IsPrefix(AtDistance(response.body, response.body[k].distance),
                        AtDistance(unit_list, response.body[k].distance))

\* more than MAX_UNITIES entries at one distance, of two establishments in
\* turn: the tie spans the cut
C9_Witness ==
    /\ Served
    /\ Len(unit_list) > MAX_UNITIES
    /\ \A k \in 1..Len(unit_list) : unit_list[k].distance = unit_list[1].distance
    /\ unit_list[1].cnes /= unit_list[2].cnes
    /\ Len(response.body) = MAX_UNITIES

\* C10: the call returns an empty list and raises nothing when no record
\* matches or every matching record's establishment is missing or lacks a
\* coordinate.
C10_EmptyNotError ==
    (Served /\ \A i \in MatchingIds : ~HasCoordinates(service_records[i].cnes)) =>
        response = Returned(<<>>)

\* matching records exist, one dangling and one without coordinates
C10_Witness ==
    /\ Served
    /\ \E i \in MatchingIds : ~HasRow(service_records[i].cnes)
    /\ \E i \in MatchingIds :
           HasRow(service_records[i].cnes) /\ ~HasCoordinates(service_records[i].cnes)
    /\ \A i \in MatchingIds : ~HasCoordinates(service_records[i].cnes)
    /\ response = Returned(<<>>)

----------------------------------------------------------------------------
(* get_unit, get_all_services, get_expertise_list *)

\* longest service_records table of the catalog specification
MaxApiRows == 2

\* src/src/models/tables.py: MedicalService, key (id, class_id); the two
\* display names are nullable String columns
MedicalService(id, class_id, service, classification) ==
    [id |-> id, class_id |-> class_id, service |-> service,
     classification |-> classification]

\* src/src/models/endpoints.py: ExpertiseItem
ExpertiseItem(id, name) == [id |-> id, name |-> name]

\* What a call returns, or the exception that leaves it
Return(body) == [status |-> "returned", body |-> body, error |-> "none"]
Exception(kind) == [status |-> "raised", body |-> <<>>, error |-> kind]

\* Variant: no isinstance test, the query's None is returned
get_unit_unchecked(infos, cnes) ==
    LET unit == query_general_info(infos, cnes)
    IN  IF unit = None THEN Return(None) ELSE Return(unit[1])

\* src/src/utils/queries.py: get_unit
get_unit(infos, cnes) ==
    LET unit == query_general_info(infos, cnes)
    IN  IF unit = None
        THEN Exception("HTTPException 404")
        ELSE Return(unit[1])

\* session.query(MedicalService).filter(id == service,
\* class_id == classification).first(): the row, or None
query_medical_service(catalog, service, classification) ==
    LET found == SelectSeq(catalog, LAMBDA m : m.id = service
                                              /\ m.class_id = classification)
    IN  IF found = <<>> THEN None ELSE Some(found[1])

\* session.query(ServiceRecord).filter(ServiceRecord.cnes == cnes).all()
query_unit_services(table, cnes) == SelectSeq(table, LAMBDA r : r.cnes = cnes)

\* str(x) of a nullable String column
str(x) == IF x = None THEN Some("None") ELSE x

\* Variant: a classification already listed is not listed again
append_if_absent(list, classification) ==
    IF \E k \in 1..Len(list) : list[k] = classification
    THEN list
    ELSE Append(list, classification)

\* services_dict[...].append(services.classification)
append_classification(list, classification) == Append(list, classification)

\* One pass of "for unit_service in unit_services".  services_dict is a
\* function from its keys to their lists.
visit_unit_service(catalog, services_dict, unit_service) ==
    LET found == query_medical_service(catalog, unit_service.service,
                                       unit_service.classification)
    IN  IF found = None
        THEN [kind |-> "continue", dict |-> services_dict, error |-> "none"]
        ELSE LET services == found[1]
                 \* if services.service not in services_dict:
                 \*     services_dict[str(services.service)] = []
                 started ==
                     IF services.service \notin DOMAIN services_dict
                     THEN [k \in DOMAIN services_dict \cup {str(services.service)} |->
                             IF k = str(services.service) THEN <<>>
                             ELSE services_dict[k]]
                     ELSE services_dict
             IN  \* services_dict[services.service].append(...)
                 IF services.service \notin DOMAIN started
                 THEN [kind |-> "raise", dict |-> started, error |-> "KeyError"]
                 ELSE [kind |-> "next",
                       dict |-> [started EXCEPT ![services.service] =
                                   append_classification(@, services.classification)],
                       error |-> "none"]

\* The loop over the unit's rows from row i on, services_dict so far in acc
RECURSIVE unit_services_loop(_, _, _, _)
unit_services_loop(catalog, rows, i, acc) ==
    IF i > Len(rows)
    THEN Return(acc)
    ELSE LET pass == visit_unit_service(catalog, acc, rows[i])
         IN  IF pass.kind = "raise"
             THEN Exception(pass.error)
             ELSE unit_services_loop(catalog, rows, i + 1, pass.dict)

\* src/src/utils/queries.py: get_all_services
get_all_services(records, catalog, cnes) ==
    unit_services_loop(catalog, query_unit_services(records, cnes), 1, <<>>)

\* ExpertiseItem(id=[expertise.id, expertise.class_id],
\* name=expertise.classification); name: str rejects None
expertise_item(expertise) ==
    IF expertise.classification = None
    THEN Exception("ValidationError")
    ELSE Return(ExpertiseItem(<<expertise.id, expertise.class_id>>,
                              expertise.classification[1]))

\* The list comprehension over the catalog's rows from row i on
RECURSIVE expertise_loop(_, _, _)
expertise_loop(expertises, i, acc) ==
    IF i > Len(expertises)
    THEN Return(acc)
    ELSE LET item == expertise_item(expertises[i])
         IN  IF item.status = "raised"
             THEN item
             ELSE expertise_loop(expertises, i + 1, Append(acc, item.body))

\* src/src/utils/queries.py: get_expertise_list
get_expertise_list(catalog) == expertise_loop(catalog, 1, <<>>)

----------------------------------------------------------------------------
(* Specification of the catalog and establishment queries *)

\* the display names (service, classification) of a catalog row
NameChoices ==
    {<<<<"A">>, <<"X">>>>, <<<<"A">>, <<"Y">>>>, <<<<"B">>, <<"X">>>>,
     <<<<>>, <<"X">>>>, <<<<"A">>, <<>>>>}

CatalogRows(p) == {MedicalService(p[1], p[2], n[1], n[2]) : n \in NameChoices}

\* every catalog over ServicePairs, in every storage order ((id, class_id)
\* is the primary key)
CatalogTables ==
    {<<>>}
    \cup {<<m>> : m \in UNION {CatalogRows(p) : p \in ServicePairs}}
    \cup {<<m1, m2>> : m1 \in CatalogRows(<<1, 1>>), m2 \in CatalogRows(<<1, 2>>)}
    \cup {<<m2, m1>> : m1 \in CatalogRows(<<1, 1>>), m2 \in CatalogRows(<<1, 2>>)}

ApiRecordTables ==
    {Numbered(t) : t \in UNION {[1..n -> RecordKinds] : n \in 0..MaxApiRows}}

ApiGeneralInfoTables ==
    {{}, {GeneralInfo(2, <<1>>, <<1>>)},
     {GeneralInfo(1, <<-1>>, <<1>>), GeneralInfo(2, <<1>>, <<1>>)}}

InitApi ==
    /\ general_infos \in ApiGeneralInfoTables
    /\ service_records \in ApiRecordTables
    /\ medical_services \in CatalogTables
    /\ request = NoRequest
    /\ unit_list = <<>>
    /\ response = NoResponse
    /\ calls = <<>>

\* A call get_unit(session, cnes)
GetUnit ==
    \E cnes \in CnesCodes :
        /\ request' = [op |-> "get_unit", params |-> [cnes |-> cnes],
                       origin |-> Coordinate(0, 0)]
        /\ response' = get_unit(general_infos, cnes)
        /\ UNCHANGED <<general_infos, service_records, medical_services,
                       unit_list, calls>>

\* A call get_all_services(session, cnes)
GetAllServices ==
    \E cnes \in CnesCodes :
        /\ request' = [op |-> "get_all_services", params |-> [cnes |-> cnes],
                       origin |-> Coordinate(0, 0)]
        /\ response' = get_all_services(service_records, medical_services, cnes)
        /\ UNCHANGED <<general_infos, service_records, medical_services,
                       unit_list, calls>>

\* A call get_expertise_list(session)
GetExpertiseList ==
    /\ request' = [op |-> "get_expertise_list", params |-> [cnes |-> 0],
                   origin |-> Coordinate(0, 0)]
    /\ response' = get_expertise_list(medical_services)
    /\ UNCHANGED <<general_infos, service_records, medical_services,
                   unit_list, calls>>

NextApi == GetUnit \/ GetAllServices \/ GetExpertiseList

SpecApi == InitApi /\ [][NextApi]_vars

----------------------------------------------------------------------------
(* Vocabulary of C13..C17 *)

\* the unit's rows, in the order the query returns them
UnitRows == SelectSeq(service_records, LAMBDA r : r.cnes = request.params.cnes)

HasCatalogEntry(r) ==
    \E k \in 1..Len(medical_services) :
        /\ medical_services[k].id = r.service
        /\ medical_services[k].class_id = r.classification

CatalogEntry(r) ==
    medical_services[CHOOSE k \in 1..Len(medical_services) :
                        /\ medical_services[k].id = r.service
                        /\ medical_services[k].class_id = r.classification]

\* the catalog entries of the unit's rows that have one, row by row
ResolvedEntries ==
    LET rows == SelectSeq(UnitRows, HasCatalogEntry)
    IN  [k \in 1..Len(rows) |-> CatalogEntry(rows[k])]

\* the classification names of the resolved rows whose service name is key
ClassificationsUnder(key) ==
    LET under == SelectSeq(ResolvedEntries, LAMBDA m : m.service = key)
    IN  [k \in 1..Len(under) |-> under[k].classification]

----------------------------------------------------------------------------
(* C13..C17 *)

C14_GroupedByServiceName ==
    (request.op = "get_all_services" /\ response.status = "returned") =>
        /\ DOMAIN response.body =
               {ResolvedEntries[k].service : k \in 1..Len(ResolvedEntries)}
        /\ \A key \in DOMAIN response.body :
               response.body[key] = ClassificationsUnder(key)

\* a key with the same classification name twice, from two rows
C14_Witness ==
    /\ request.op = "get_all_services"
    /\ response.status = "returned"
    /\ \E key \in DOMAIN response.body :
           /\ Len(response.body[key]) = 2
           /\ response.body[key][1] = response.body[key][2]

\* C15: a row whose pair has no catalog entry is skipped without raising,
\* and every other row of the establishment is still in the mapping.
C15_DanglingServiceSkipped ==
    (/\ request.op = "get_all_services"
     /\ \E k \in 1..Len(UnitRows) : ~HasCatalogEntry(UnitRows[k])) =>
        /\ response.status = "returned"
        /\ \A key \in {ResolvedEntries[k].service : k \in 1..Len(ResolvedEntries)} :
               /\ key \in DOMAIN response.body
               /\ Len(response.body[key]) = Len(ClassificationsUnder(key))

\* C16: get_all_services returns a mapping and raises nothing, whatever the
\* rows hold, null display names included.
C16_ListingNeverFails ==
    request.op = "get_all_services" => response.status = "returned"

\* C17: get_expertise_list returns one item per catalog row, in storage
\* order, with id = [id, class_id] and name = the row's classification name.
C17_PureProjection ==
    request.op = "get_expertise_list" =>
        /\ response.status = "returned"
        /\ Len(response.body) = Len(medical_services)
        /\ \A k \in 1..Len(medical_services) :
               /\ response.body[k].id =
                      <<medical_services[k].id, medical_services[k].class_id>>
               /\ <<response.body[k].name>> = medical_services[k].classification

----------------------------------------------------------------------------
(* The geocoder adapter: src/src/utils/helpers.py get_coord_from_cep *)

\* what requests.get(api_url) hands back: the status code and the body.
\* json says whether the body parses as a JSON object; lat and lng are
\* data.get("lat") and data.get("lng"), None when the key is absent.
HttpResponse(status_code, json, lat, lng) ==
    [status_code |-> status_code, json |-> json, lat |-> lat, lng |-> lng]

HttpBodies ==
    {<<TRUE, <<0>>, <<0>>>>, <<TRUE, <<1>>, <<1>>>>,
     <<TRUE, <<1>>, <<>>>>, <<FALSE, <<>>, <<>>>>}

StatusCodes == {200, 201, 404, 500}

HttpResponses ==
    {HttpResponse(c, b[1], b[2], b[3]) : c \in StatusCodes, b \in HttpBodies}

NoHttpResponse == HttpResponse(0, FALSE, <<>>, <<>>)

\* Coordinate(lat=..., lng=...) validates: both fields are required Decimals
valid_coordinate(resp) == resp.lat /= None /\ resp.lng /= None

\* Variant: every status other than 200 raises the generic exception
get_coord_from_cep_generic(resp) ==
    IF resp.status_code /= 200
    THEN Exception("Exception: Erro ao consultar CEP")
    ELSE IF ~resp.json
         THEN Exception("JSONDecodeError")
         ELSE IF ~valid_coordinate(resp)
              THEN Exception("Exception: Erro ao validar resposta da API")
              ELSE Return(Coordinate(resp.lat[1], resp.lng[1]))

\* Variant: every 2xx status is read as a success
get_coord_from_cep_any_2xx(resp) ==
    IF resp.status_code \notin {200, 201}
    THEN IF resp.status_code = 404
         THEN Exception("HTTPException 404")
         ELSE Exception("Exception: Erro ao consultar CEP")
    ELSE IF ~resp.json
         THEN Exception("JSONDecodeError")
         ELSE IF ~valid_coordinate(resp)
              THEN Exception("Exception: Erro ao validar resposta da API")
              ELSE Return(Coordinate(resp.lat[1], resp.lng[1]))

\* get_coord_from_cep, from the response of requests.get on
get_coord_from_cep(resp) ==
    IF resp.status_code /= 200
    THEN IF resp.status_code = 404
         THEN Exception("HTTPException 404")
         ELSE Exception("Exception: Erro ao consultar CEP")
    ELSE IF ~resp.json
         THEN Exception("JSONDecodeError")
         ELSE IF ~valid_coordinate(resp)
              THEN Exception("Exception: Erro ao validar resposta da API")
              ELSE Return(Coordinate(resp.lat[1], resp.lng[1]))

----------------------------------------------------------------------------
(* Requests in flight: the functions of queries.py, one query per step *)

\* the workers that serve requests at the same time
Slots == {1, 2}

CallParams(srv, clf, cnes) == [srv |-> srv, clf |-> clf, cnes |-> cnes]

NoOutcome == [status |-> "none", body |-> <<>>, error |-> "none"]

\* the frame of one request: its function, arguments, position and locals;
\* nq counts the table queries it has issued, overlapped records that it took
\* a step while another request was between two of its own queries
Idle ==
    [op |-> "none", params |-> CallParams(0, 0, 0), pc |-> "idle",
     http |-> NoHttpResponse, origin |-> Coordinate(0, 0),
     rows |-> <<>>, i |-> 1, unit_list |-> <<>>, services_dict |-> <<>>,
     nq |-> 0, coord |-> NoOutcome, outcome |-> NoOutcome, overlapped |-> FALSE]

Requests ==
    {[op |-> "unidades", params |-> CallParams(p.srv, p.clf, 0)] : p \in UnitRequests}
    \cup {[op |-> o, params |-> CallParams(0, 0, c)] :
              o \in {"get_unit", "get_all_services"}, c \in CnesCodes}
    \cup {[op |-> "get_expertise_list", params |-> CallParams(0, 0, 0)]}

FirstStep(op) ==
    CASE op = "unidades" -> "geocode"
      [] op = "get_unit" -> "unit"
      [] op = "get_all_services" -> "services"
      [] op = "get_expertise_list" -> "expertises"

\* the three tables as the session sees them
Tables == [g |-> general_infos, s |-> service_records, m |-> medical_services]

\* Variant: the query deletes the ServiceRecord rows it read
session_delete(tables) == [tables EXCEPT !.s = <<>>]

\* session.query(...).filter(...).all() / .first(): a SELECT; queries.py
\* holds no add, delete, flush or commit
session_query(tables) == tables

\* Variant: unit_list is one list shared by the workers
shared_unit_list(frames, s) == frames[1].unit_list

\* "unit_list: List[UnitItem] = []" is a local of the call
local_unit_list(frames, s) == frames[s].unit_list

\* "services_dict: Dict[str, List[str]] = {}" is a local of the call
local_services_dict(frames, s) == frames[s].services_dict

ConcGeneralInfoTables ==
    {{}, {GeneralInfo(1, <<1>>, <<1>>), GeneralInfo(2, <<-1>>, <<1>>)}}

ConcRecordTables ==
    {<<>>,
     <<ServiceRecord(1, 1, 1, 1)>>,
     <<ServiceRecord(1, 1, 1, 1), ServiceRecord(2, 2, 1, 1)>>,
     <<ServiceRecord(1, 2, 2, 1), ServiceRecord(2, 1, 1, 2), ServiceRecord(3, 1, 1, 1)>>}

ConcCatalogTables ==
    {<<>>,
     <<MedicalService(1, 1, <<"A">>, <<"X">>)>>,
     <<MedicalService(1, 1, <<"A">>, <<"X">>), MedicalService(1, 2, <<"A">>, <<"Y">>)>>,
     <<MedicalService(1, 1, <<>>, <<"X">>)>>}

InitConc ==
    /\ general_infos \in ConcGeneralInfoTables
    /\ service_records \in ConcRecordTables
    /\ medical_services \in ConcCatalogTables
    /\ request = NoRequest
    /\ unit_list = <<>>
    /\ response = NoResponse
    /\ calls = [s \in Slots |-> Idle]

InFlight(frame) == frame.pc \notin {"idle", "done"} /\ frame.nq >= 1

Observed(s, frame) ==
    [frame EXCEPT !.overlapped = @ \/ \E t \in Slots \ {s} : InFlight(calls[t])]

Query(s, frame) ==
    /\ calls' = [calls EXCEPT ![s] = Observed(s, frame)]
    /\ general_infos' = session_query(Tables).g
    /\ service_records' = session_query(Tables).s
    /\ medical_services' = session_query(Tables).m
    /\ UNCHANGED <<request, unit_list, response>>

Done(frame, outcome) == [frame EXCEPT !.pc = "done", !.outcome = outcome]

\* A request arrives at a free worker
Begin(s) ==
    /\ calls[s].pc \in {"idle", "done"}
    /\ \E r \in Requests :
           calls' = [calls EXCEPT ![s] =
                        [Idle EXCEPT !.op = r.op, !.params = r.params,
                                     !.pc = FirstStep(r.op)]]
    /\ UNCHANGED <<general_infos, service_records, medical_services,
                   request, unit_list, response>>

\* /unidades: coord = get_coord_from_cep(params.cep), then
\* get_near_unit_list(session, params, coord); an exception of
\* get_coord_from_cep leaves the handler
Geocode(s) ==
    /\ calls[s].pc = "geocode"
    /\ \E http \in HttpResponses :
           LET coord == get_coord_from_cep(http)
               frame == [calls[s] EXCEPT !.http = http, !.coord = coord]
           IN  calls' = [calls EXCEPT ![s] =
                   IF coord.status = "raised"
                   THEN Done(frame, coord)
                   ELSE [frame EXCEPT !.origin = coord.body, !.pc = "records"]]
    /\ UNCHANGED <<general_infos, service_records, medical_services,
                   request, unit_list, response>>

\* A query of the session fails (the data store is unreachable): nothing in
\* queries.py catches it
QueryFails(s) ==
    /\ \/ calls[s].pc \in {"records", "unit", "services", "expertises"}
       \/ /\ calls[s].pc \in {"visit_record", "visit_unit_service"}
          /\ calls[s].i <= Len(calls[s].rows)
    /\ calls' = [calls EXCEPT ![s] =
                    Observed(s, Done([calls[s] EXCEPT !.nq = @ + 1],
                                     Exception("OperationalError")))]
    /\ UNCHANGED <<general_infos, service_records, medical_services,
                   request, unit_list, response>>

\* get_near_unit_list: the query of the matching ServiceRecord rows
NearRecords(s) ==
    /\ calls[s].pc = "records"
    /\ Query(s, [calls[s] EXCEPT
                    !.rows = query_service_records(
                                 service_records,
                                 UnitRequest(calls[s].params.srv, calls[s].params.clf)),
                    !.i = 1, !.unit_list = <<>>, !.nq = @ + 1,
                    !.pc = "visit_record"])

\* get_near_unit_list: one pass of "for record in service_records"
NearVisit(s) ==
    /\ calls[s].pc = "visit_record"
    /\ calls[s].i <= Len(calls[s].rows)
    /\ LET pass == visit_record(general_infos, calls[s].rows[calls[s].i],
                                calls[s].origin)
       IN  Query(s, IF pass.kind = "raise"
                    THEN Done([calls[s] EXCEPT !.nq = @ + 1],
                              Exception("AttributeError"))
                    ELSE [calls[s] EXCEPT
                             !.unit_list = local_unit_list(calls, s) \o pass.items,
                             !.i = @ + 1, !.nq = @ + 1])

\* get_near_unit_list: sorted(...)[:MAX_UNITIES] and return
NearReturn(s) ==
    /\ calls[s].pc = "visit_record"
    /\ calls[s].i > Len(calls[s].rows)
    /\ calls' = [calls EXCEPT ![s] =
                    Observed(s, Done(calls[s],
                        Return(truncate(sorted_by_distance(local_unit_list(calls, s))))))]
    /\ UNCHANGED <<general_infos, service_records, medical_services,
                   request, unit_list, response>>

\* get_all_services: the query of the establishment's ServiceRecord rows
ServicesRecords(s) ==
    /\ calls[s].pc = "services"
    /\ Query(s, [calls[s] EXCEPT
                    !.rows = query_unit_services(service_records, calls[s].params.cnes),
                    !.i = 1, !.services_dict = <<>>, !.nq = @ + 1,
                    !.pc = "visit_unit_service"])

\* get_all_services: one pass of "for unit_service in unit_services"
ServicesVisit(s) ==
    /\ calls[s].pc = "visit_unit_service"
    /\ calls[s].i <= Len(calls[s].rows)
    /\ LET pass == visit_unit_service(medical_services, local_services_dict(calls, s),
                                      calls[s].rows[calls[s].i])
       IN  Query(s, IF pass.kind = "raise"
                    THEN Done([calls[s] EXCEPT !.nq = @ + 1], Exception(pass.error))
                    ELSE [calls[s] EXCEPT !.services_dict = pass.dict,
                                          !.i = @ + 1, !.nq = @ + 1])

\* get_all_services: return services_dict
ServicesReturn(s) ==
    /\ calls[s].pc = "visit_unit_service"
    /\ calls[s].i > Len(calls[s].rows)
    /\ calls' = [calls EXCEPT ![s] =
                    Observed(s, Done(calls[s], Return(local_services_dict(calls, s))))]
    /\ UNCHANGED <<general_infos, service_records, medical_services,
                   request, unit_list, response>>

\* get_unit: its one query and the isinstance test
UnitLookup(s) ==
    /\ calls[s].pc = "unit"
    /\ Query(s, Done([calls[s] EXCEPT !.nq = @ + 1],
                     get_unit(general_infos, calls[s].params.cnes)))

\* get_expertise_list: its one query and the comprehension
ExpertiseQuery(s) ==
    /\ calls[s].pc = "expertises"
    /\ Query(s, Done([calls[s] EXCEPT !.nq = @ + 1],
                     get_expertise_list(medical_services)))

NextConc ==
    \E s \in Slots :
        \/ Begin(s)
        \/ Geocode(s)
        \/ QueryFails(s)
        \/ NearRecords(s)
        \/ NearVisit(s)
        \/ NearReturn(s)
        \/ ServicesRecords(s)
        \/ ServicesVisit(s)
        \/ ServicesReturn(s)
        \/ UnitLookup(s)
        \/ ExpertiseQuery(s)

SpecConc == InitConc /\ [][NextConc]_vars

----------------------------------------------------------------------------
(* C11, C12, C18, C19, C20 *)

Geocoded(frame) == frame.http /= NoHttpResponse

ThreeOutcomeClasses(success) ==
    \A s \in Slots :
        Geocoded(calls[s]) =>
            LET http == calls[s].http
                coord == calls[s].coord
                well_formed == http.json /\ valid_coordinate(http)
            IN  /\ (http.status_code \in success /\ well_formed) =>
                       coord = Return(Coordinate(http.lat[1], http.lng[1]))
                /\ http.status_code = 404 =>
                       coord = Exception("HTTPException 404")
                /\ (http.status_code \notin success \cup {404}
                    \/ (http.status_code \in success /\ ~well_formed)) =>
                       /\ coord.status = "raised"
                       /\ coord.error /= "HTTPException 404"
                /\ http.status_code \notin success => coord.status = "raised"

\* C12 as stated: a success (2xx) response with valid lat and lng returns
\* the Coordinate; 404 raises the 404 HTTPException; every other non-success
\* status and a success response without valid lat and lng raise a generic
\* failure; a failed response never yields a Coordinate.
C12_ThreeOutcomeClasses == ThreeOutcomeClasses(200..299)

\* C12 amended: the same three classes where the success response is the
\* response with status 200 exactly; any other status but 404, other 2xx
\* statuses included, raises the generic failure.
C12_ThreeOutcomeClasses200 == ThreeOutcomeClasses({200})

\* a 201 response with valid lat and lng ended in the generic failure
C12_Witness ==
    \E s \in Slots :
        /\ calls[s].http.status_code = 201
        /\ calls[s].http.json
        /\ valid_coordinate(calls[s].http)
        /\ calls[s].coord = Exception("Exception: Erro ao consultar CEP")

\* C18: a finished get_near_unit_list or get_all_services has one of two
\* outcomes: it returned its result, or a query failed and that very failure
\* left the function, with no list or mapping.
C18_ResultOrQueryFailure ==
    \A s \in Slots :
        (/\ calls[s].pc = "done"
         /\ \/ calls[s].op = "get_all_services"
            \/ calls[s].op = "unidades" /\ calls[s].coord.status = "returned") =>
            \/ calls[s].outcome.status = "returned"
            \/ calls[s].outcome = Exception("OperationalError")

\* C19: no step of a nearest-unit, detail-aggregation, establishment-lookup
\* or expertise-listing request, successful or failing, changes a row of
\* the GeneralInfo, MedicalService or ServiceRecord tables.
C19_QueryPathReadOnly ==
    [][/\ general_infos' = general_infos
       /\ service_records' = service_records
       /\ medical_services' = medical_services]_vars

\* a request that returned after several queries and one that failed, over
\* tables that hold rows
C19_Witness ==
    /\ service_records /= <<>>
    /\ general_infos /= {}
    /\ medical_services /= <<>>
    /\ \E s, t \in Slots :
           /\ calls[s].pc = "done" /\ calls[s].outcome.status = "returned"
           /\ calls[s].nq >= 2
           /\ calls[t].pc = "done" /\ calls[t].outcome.status = "raised"

\* what the request of a frame returns when it runs alone over the tables
Alone(frame) ==
    CASE frame.op = "unidades" ->
             IF frame.coord.status = "raised"
             THEN frame.coord
             ELSE Return(get_near_unit_list(
                             general_infos, service_records,
                             UnitRequest(frame.params.srv, frame.params.clf),
                             frame.origin).answer.body)
      [] frame.op = "get_all_services" ->
             get_all_services(service_records, medical_services, frame.params.cnes)
      [] frame.op = "get_unit" -> get_unit(general_infos, frame.params.cnes)
      [] frame.op = "get_expertise_list" -> get_expertise_list(medical_services)

----------------------------------------------------------------------------
(* get_distance as a function of two coordinates *)

MaxDegree == 2

\* the valid coordinates of the grid
Coordinates ==
    {Coordinate(lat, lng) : lat \in -MaxDegree..MaxDegree,
                            lng \in -MaxDegree..MaxDegree}

DistanceRequest(origin, destination) ==
    [op |-> "get_distance", params |-> UnitRequest(0, 0),
     origin |-> origin, destination |-> destination]

InitDistance ==
    /\ general_infos = {}
    /\ service_records = <<>>
    /\ medical_services = <<>>
    /\ request \in {DistanceRequest(a, b) : a \in Coordinates, b \in Coordinates}
    /\ unit_list = <<>>
    /\ response = NoResponse
    /\ calls = <<>>

\* A call get_distance(origin, destination)
GetDistance ==
    /\ response.status = "none"
    /\ response' = Returned(get_distance(request.origin, request.destination))
    /\ UNCHANGED <<general_infos, service_records, medical_services, request,
                   unit_list, calls>>

NextDistance == GetDistance

SpecDistance == InitDistance /\ [][NextDistance]_vars

----------------------------------------------------------------------------
(* The dataset and its processing: src/scripts/process_sus_data.py *)

MaxDatasetRows == 2

\* A cell of the columns SERVIÇO and SERVIÇO CLASSIFICAÇÃO is a string
\* "<digits> <description>": the digits as they are written, then the text
Cell(digits, text) == [digits |-> digits, text |-> text]

\* str.split(maxsplit=1): the first word and the rest
split(cell) == <<cell.digits, cell.text>>

\* int() of a string of decimal digits
RECURSIVE int(_)
int(digits) ==
    IF digits = <<>> THEN 0
    ELSE 10 * int(SubSeq(digits, 1, Len(digits) - 1)) + digits[Len(digits)]

ServiceCells == {Cell(<<1>>, "A"), Cell(<<0, 1>>, "A"), Cell(<<1>>, "B")}
ClassificationCells == {Cell(<<1>>, "X"), Cell(<<2>>, "Y")}

\* a row of the elasticnes dataframe (the columns the scripts read)
DatasetRow(cnes, service, classification) ==
    [CNES |-> cnes, SERVICO |-> service, SERVICO_CLASSIFICACAO |-> classification]

DatasetRows ==
    {DatasetRow(c, sv, cl) : c \in CnesCodes, sv \in ServiceCells,
                             cl \in ClassificationCells}

Datasets == UNION {[1..n -> DatasetRows] : n \in 0..MaxDatasetRows}

\* set([(service['SERVIÇO'], service['SERVIÇO CLASSIFICAÇÃO']) for ...])
service_pairs(data) ==
    {<<data[k].SERVICO, data[k].SERVICO_CLASSIFICACAO>> : k \in 1..Len(data)}

\* the orders in which "for service in medical_services" can visit a set
Orders(set) ==
    {order \in [1..Cardinality(set) -> set] :
        \A i, j \in 1..Cardinality(set) : order[i] = order[j] => i = j}

\* the MedicalService built from one pair of cells
processed_service(service) ==
    LET id == split(service[1])[1]
        serv == split(service[1])[2]
        class_id == split(service[2])[1]
        cls == split(service[2])[2]
    IN  MedicalService(int(id), int(class_id), <<serv>>, <<cls>>)

\* process_medical_services, the set visited in the given order
process_medical_services(data, order) ==
    [k \in 1..Len(order) |-> processed_service(order[k])]

\* Variant: the service code read from the classification column and the
\* classification code from the service column
process_service_records_swapped(data) ==
    [k \in 1..Len(data) |->
        [cnes |-> data[k].CNES,
         service |-> int(split(data[k].SERVICO_CLASSIFICACAO)[1]),
         classification |-> int(split(data[k].SERVICO)[1])]]

\* process_service_records
process_service_records(data) ==
    [k \in 1..Len(data) |->
        [cnes |-> data[k].CNES,
         service |-> int(split(data[k].SERVICO)[1]),
         classification |-> int(split(data[k].SERVICO_CLASSIFICACAO)[1])]]

InitProcess ==
    /\ general_infos = {}
    /\ service_records = <<>>
    /\ medical_services = <<>>
    /\ request \in {[op |-> "process_medical_services", data |-> data] :
                       data \in Datasets}
    /\ unit_list = <<>>
    /\ response = NoOutcome
    /\ calls = <<>>

\* A call process_medical_services(elasticnes)
ProcessMedicalServices ==
    /\ response.status = "none"
    /\ \E order \in Orders(service_pairs(request.data)) :
           response' = Return(process_medical_services(request.data, order))
    /\ UNCHANGED <<general_infos, service_records, medical_services, request,
                   unit_list, calls>>

NextProcess == ProcessMedicalServices

SpecProcess == InitProcess /\ [][NextProcess]_vars

\* C26: no two MedicalService objects that process_medical_services returns
\* share the key (id, class_id), and every (service code, classification
\* code) combination of the dataset has exactly one entry.
C26_UniqueCatalogEntries ==
    (request.op = "process_medical_services" /\ response.status = "returned") =>
        LET processed == response.body
            records == process_service_records(request.data)
        IN  /\ \A i, j \in 1..Len(processed) :
                   (/\ processed[i].id = processed[j].id
                    /\ processed[i].class_id = processed[j].class_id) => i = j
            /\ \A k \in 1..Len(records) :
                   Cardinality({i \in 1..Len(processed) :
                                   /\ processed[i].id = records[k].service
                                   /\ processed[i].class_id =
                                          records[k].classification}) = 1

----------------------------------------------------------------------------
(* The dataset download: src/scripts/fetcher.py download_cnes_data *)

\* "if year < 2017"
MIN_YEAR == 2017

\* the outcome of a call and what it did: the requests it posted and the
\* files it wrote under DATA_PATH
Effect(outcome, posts, files) ==
    [status |-> outcome.status, body |-> outcome.body, error |-> outcome.error,
     posts |-> posts, files |-> files]

\* requests.post(...) then __save_data(data, "DADOS_CNES.csv"); net and disk
\* say whether the request and the write go through
post_and_save(net, disk) ==
    IF net /= "ok"
    THEN Effect(Exception("ConnectionError"), 1, {})
    ELSE IF disk /= "ok"
         THEN Effect(Exception("OSError"), 1, {})
         ELSE Effect(Return(<<>>), 1, {"DADOS_CNES.csv"})

\* Variant: the request is posted and saved first, the period checked after
download_cnes_data_check_last(year, month, currentYear, net, disk) ==
    LET done == post_and_save(net, disk)
    IN  IF done.status = "raised"
        THEN done
        ELSE IF year < MIN_YEAR \/ year > currentYear
             THEN Effect(Exception("ValueError"), done.posts, done.files)
             ELSE IF month < 1 \/ month > 12
                  THEN Effect(Exception("ValueError"), done.posts, done.files)
                  ELSE done

\* download_cnes_data(year, month) run in the year currentYear
download_cnes_data(year, month, currentYear, net, disk) ==
    IF year < MIN_YEAR \/ year > currentYear
    THEN Effect(Exception("ValueError"), 0, {})
    ELSE IF month < 1 \/ month > 12
         THEN Effect(Exception("ValueError"), 0, {})
         ELSE post_and_save(net, disk)

Years == (MIN_YEAR - 1)..(MIN_YEAR + 2)
Months == 0..13

InitFetch ==
    /\ general_infos = {}
    /\ service_records = <<>>
    /\ medical_services = <<>>
    /\ request \in {[op |-> "download_cnes_data", year |-> y, month |-> mo,
                     currentYear |-> cy] :
                       y \in Years, mo \in Months,
                       cy \in {MIN_YEAR, MIN_YEAR + 1}}
    /\ unit_list = <<>>
    /\ response = Effect(NoOutcome, 0, {})
    /\ calls = <<>>

\* A call download_cnes_data(year, month)
DownloadCnesData ==
    /\ response.status = "none"
    /\ \E net \in {"ok", "failed"}, disk \in {"ok", "failed"} :
           response' = download_cnes_data(request.year, request.month,
                                          request.currentYear, net, disk)
    /\ UNCHANGED <<general_infos, service_records, medical_services, request,
                   unit_list, calls>>

NextFetch == DownloadCnesData

SpecFetch == InitFetch /\ [][NextFetch]_vars

ValidPeriod ==
    /\ request.year >= MIN_YEAR
    /\ request.year <= request.currentYear
    /\ request.month \in 1..12

\* C27: for year < 2017, year > the current year or month outside 1..12,
\* download_cnes_data raises ValueError, having posted no request and
\* written no file; for a valid period it raises no ValueError.
C27_InvalidPeriodRejectedFirst ==
    (request.op = "download_cnes_data" /\ response.status /= "none") =>
        IF ValidPeriod
        THEN response.error /= "ValueError"
        ELSE /\ response.error = "ValueError"
             /\ response.posts = 0
             /\ response.files = {}

\* a call for month 13 of a valid year, rejected
C27_Witness ==
    /\ request.op = "download_cnes_data"
    /\ request.month = 13
    /\ request.year = request.currentYear
    /\ response.error = "ValueError"
    /\ response.posts = 0

----------------------------------------------------------------------------
(* The populator: src/scripts/populator.py *)

\* an object handed to session.add, with the table of its class
MappedObject(table, row) == [table |-> table, row |-> row]

\* the outcome of a statement that works on the database
Stored(tables) == [tables |-> tables, error |-> "none"]
Failed(tables, error) == [tables |-> tables, error |-> error]

\* Variant: the test never finds the database populated
db_is_populated_never(tables) == FALSE

\* db_is_populated: session.query(GeneralInfo).first() is not None
db_is_populated(tables) == tables.g /= {}

HasKey(catalog, id, class_id) ==
    \E k \in 1..Len(catalog) : catalog[k].id = id /\ catalog[k].class_id = class_id

\* populate_db_from_object: session.add(obj); session.commit().  obj is None
\* (<<>>) or <<object>>; the commit enforces the primary keys and the foreign
\* key of service_records (tables.py)
populate_db_from_object(tables, obj) ==
    IF obj = None
    THEN Failed(tables, "UnmappedInstanceError")
    ELSE LET row == obj[1].row
         IN  CASE obj[1].table = "medical_services" ->
                      IF HasKey(tables.m, row.id, row.class_id)
                      THEN Failed(tables, "IntegrityError: primary key")
                      ELSE Stored([tables EXCEPT !.m = Append(@, row)])
               [] obj[1].table = "service_records" ->
                      IF ~HasKey(tables.m, row.service, row.classification)
                      THEN Failed(tables, "IntegrityError: foreign key")
                      ELSE Stored([tables EXCEPT !.s =
                               Append(@, ServiceRecord(Len(@) + 1, row.cnes,
                                          row.service, row.classification))])
               [] obj[1].table = "general_infos" ->
                      IF \E u \in tables.g : u.cnes = row.cnes
                      THEN Failed(tables, "IntegrityError: primary key")
                      ELSE Stored([tables EXCEPT !.g = @ \cup {row}])

\* what the open-data API answers for an establishment: curl fails, the
\* answer is empty, or it is a body: the establishment's JSON record, a JSON
\* object without the record's keys, or text that is not JSON
Answers == {"curl failed", "empty", "record", "other json", "not json"}

NoFile == "absent"

\* download_stablishment(cnes_code): the exception or return, and the
\* content of {cnes_code}.json afterwards (file is its content before)
download_stablishment(answer, disk, file) ==
    IF answer = "curl failed"
    THEN [outcome |-> Exception("CalledProcessError"), file |-> file]
    ELSE IF answer = "empty"
         THEN [outcome |-> Exception("ValueError"), file |-> file]
         ELSE IF disk /= "ok"
              THEN [outcome |-> Exception("OSError"), file |-> file]
              ELSE [outcome |-> Return(<<>>), file |-> answer]

\* process_general_info(elasticnes, "{DATA_PATH}/{cnes_code}.json"): None
\* after the caught json.load error, KeyError for a JSON object without
\* 'codigo_cnes', else the GeneralInfo of the code
process_general_info(cnes_code, file) ==
    IF file \in {"not json", NoFile}
    THEN Return(None)
    ELSE IF file = "other json"
         THEN Exception("KeyError")
         ELSE Return(Some(MappedObject("general_infos",
                                       GeneralInfo(cnes_code, <<1>>, <<1>>))))

\* codes = set(elasticnes['CNES'])
cnes_codes(data) == {data[k].CNES : k \in 1..Len(data)}

\* the objects populate_medical_services stores, in order
catalog_objects(data, order) ==
    LET processed == process_medical_services(data, order)
    IN  [k \in 1..Len(processed) |-> MappedObject("medical_services", processed[k])]

\* the objects populate_service_records stores, in order
record_objects(data) ==
    LET records == process_service_records(data)
    IN  [k \in 1..Len(records) |-> MappedObject("service_records", records[k])]


\* --skip-to
SkipTo == 0..5

\* the datasets the source can hold
PopulatorDatasets ==
    {<<>>,
     <<DatasetRow(1, Cell(<<1>>, "A"), Cell(<<1>>, "X"))>>,
     <<DatasetRow(1, Cell(<<1>>, "A"), Cell(<<1>>, "X")),
       DatasetRow(2, Cell(<<1>>, "A"), Cell(<<2>>, "Y"))>>,
     <<DatasetRow(1, Cell(<<1>>, "A"), Cell(<<1>>, "X")),
       DatasetRow(2, Cell(<<1>>, "B"), Cell(<<1>>, "X"))>>}

EmptyCache == [csv |-> FALSE, json |-> [c \in CnesCodes |-> NoFile]]

\* the populator process: where it is in __main__, its variables, what it
\* has logged, how it ended; cache is the content of DATA_PATH, before the
\* tables and cache as the run found them, downloaded the codes whose
\* download_stablishment returned in this run
NoRun ==
    [pc |-> "idle", skip_to |-> 0, elasticnes |-> None, todo |-> <<>>,
     log |-> <<>>, error |-> "none", retried |-> FALSE, downloaded |-> {},
     cache |-> EmptyCache,
     before |-> [g |-> {}, s |-> <<>>, m |-> <<>>, cache |-> EmptyCache]]

Started(k) == [step |-> k, event |-> "started"]
Finished(k) == [step |-> k, event |-> "finished"]

InitPopulate ==
    /\ general_infos = {}
    /\ service_records = <<>>
    /\ medical_services = <<>>
    /\ request \in {[op |-> "populator", data |-> data] : data \in PopulatorDatasets}
    /\ unit_list = <<>>
    /\ response = NoOutcome
    /\ calls = NoRun

SetTables(tables) ==
    /\ general_infos' = tables.g
    /\ service_records' = tables.s
    /\ medical_services' = tables.m

Abort(run, error) == [run EXCEPT !.pc = "aborted", !.error = error, !.todo = <<>>]

\* python populator.py --year Y --month M --skip-to N: a new process
RunPopulator ==
    /\ calls.pc \in {"idle", "exited", "finished", "aborted"}
    /\ \E n \in SkipTo :
           calls' = [NoRun EXCEPT !.pc = "check", !.skip_to = n,
                                  !.cache = calls.cache,
                                  !.before = [g |-> general_infos,
                                              s |-> service_records,
                                              m |-> medical_services,
                                              cache |-> calls.cache]]
    /\ UNCHANGED <<general_infos, service_records, medical_services, request,
                   unit_list, response>>

\* "if db_is_populated(): ... exit(0)"
CheckPopulated ==
    /\ calls.pc = "check"
    /\ calls' = [calls EXCEPT !.pc = IF db_is_populated(Tables) THEN "exited"
                                     ELSE "if 0"]
    /\ UNCHANGED <<general_infos, service_records, medical_services, request,
                   unit_list, response>>

\* "if args.skip_to <= 0: download_cnes_data(args.year, args.month)"
DownloadData ==
    /\ calls.pc = "if 0"
    /\ \E net \in {"ok", "failed"}, disk \in {"ok", "failed"} :
           LET done == download_cnes_data(MIN_YEAR, 1, MIN_YEAR, net, disk)
           IN  calls' =
                   IF calls.skip_to > 0
                   THEN [calls EXCEPT !.pc = "if 1"]
                   ELSE IF done.status = "raised"
                        THEN Abort([calls EXCEPT !.log = Append(@, Started(0))],
                                   done.error)
                        ELSE [calls EXCEPT !.pc = "if 1", !.cache.csv = TRUE,
                                  !.log = @ \o <<Started(0), Finished(0)>>]
    /\ UNCHANGED <<general_infos, service_records, medical_services, request,
                   unit_list, response>>

\* "if args.skip_to <= 1: elasticnes = pd.read_csv(...DADOS_CNES.csv)"
ReadData ==
    /\ calls.pc = "if 1"
    /\ calls' =
           IF calls.skip_to > 1
           THEN [calls EXCEPT !.pc = "if 2"]
           ELSE IF ~calls.cache.csv
                THEN Abort([calls EXCEPT !.log = Append(@, Started(1))],
                           "FileNotFoundError")
                ELSE [calls EXCEPT !.pc = "if 2",
                                   !.elasticnes = Some(request.data),
                                   !.log = @ \o <<Started(1), Finished(1)>>]
    /\ UNCHANGED <<general_infos, service_records, medical_services, request,
                   unit_list, response>>

\* entering a step that stores the objects todo one by one, then goes to next
BeginStep(run, k, todo, inside, next) ==
    IF todo = <<>>
    THEN [run EXCEPT !.pc = next, !.log = @ \o <<Started(k), Finished(k)>>]
    ELSE [run EXCEPT !.pc = inside, !.todo = todo, !.log = Append(@, Started(k))]

\* one pass of a loop that stores Head(todo)
StoreNext(run, k, stored, inside, next) ==
    IF stored.error /= "none"
    THEN Abort(run, stored.error)
    ELSE IF Tail(run.todo) = <<>>
         THEN [run EXCEPT !.pc = next, !.todo = <<>>,
                          !.log = Append(@, Finished(k))]
         ELSE [run EXCEPT !.pc = inside, !.todo = Tail(@)]

\* "if args.skip_to <= 2: populate_medical_services(elasticnes)" up to its loop
BeginMedicalServices ==
    /\ calls.pc = "if 2"
    /\ IF calls.skip_to > 2
       THEN calls' = [calls EXCEPT !.pc = "if 3"]
       ELSE IF calls.elasticnes = None
            THEN calls' = Abort([calls EXCEPT !.log = Append(@, Started(2))],
                                "NameError")
            ELSE \E order \in Orders(service_pairs(calls.elasticnes[1])) :
                     calls' = BeginStep(calls, 2,
                                        catalog_objects(calls.elasticnes[1], order),
                                        "populate_medical_services", "if 3")
    /\ UNCHANGED <<general_infos, service_records, medical_services, request,
                   unit_list, response>>

\* populate_medical_services: one pass of "for service in medical_services"
PopulateMedicalServices ==
    /\ calls.pc = "populate_medical_services"
    /\ LET stored == populate_db_from_object(Tables, Some(Head(calls.todo)))
       IN  /\ SetTables(stored.tables)
           /\ calls' = StoreNext(calls, 2, stored,
                                 "populate_medical_services", "if 3")
    /\ UNCHANGED <<request, unit_list, response>>

\* "if args.skip_to <= 3: populate_service_records(elasticnes)" up to its loop
BeginServiceRecords ==
    /\ calls.pc = "if 3"
    /\ calls' =
           IF calls.skip_to > 3
           THEN [calls EXCEPT !.pc = "if 4"]
           ELSE IF calls.elasticnes = None
                THEN Abort([calls EXCEPT !.log = Append(@, Started(3))], "NameError")
                ELSE BeginStep(calls, 3, record_objects(calls.elasticnes[1]),
                               "populate_service_records", "if 4")
    /\ UNCHANGED <<general_infos, service_records, medical_services, request,
                   unit_list, response>>

\* populate_service_records: one pass of "for record in records"
PopulateServiceRecords ==
    /\ calls.pc = "populate_service_records"
    /\ LET stored == populate_db_from_object(Tables, Some(Head(calls.todo)))
       IN  /\ SetTables(stored.tables)
           /\ calls' = StoreNext(calls, 3, stored,
                                 "populate_service_records", "if 4")
    /\ UNCHANGED <<request, unit_list, response>>

\* "if args.skip_to <= 4: populate_general_info(elasticnes)" up to its loop;
\* todo holds the codes in the order the set is visited
BeginGeneralInfo ==
    /\ calls.pc = "if 4"
    /\ IF calls.skip_to > 4
       THEN calls' = [calls EXCEPT !.pc = "if 5"]
       ELSE IF calls.elasticnes = None
            THEN calls' = Abort([calls EXCEPT !.log = Append(@, Started(4))],
                                "NameError")
            ELSE \E order \in Orders(cnes_codes(calls.elasticnes[1])) :
                     calls' = BeginStep(calls, 4, order, "download_stablishment",
                                        "if 5")
    /\ UNCHANGED <<general_infos, service_records, medical_services, request,
                   unit_list, response>>

\* populate_general_info: one pass of "while True: try: download_stablishment"
DownloadStablishment ==
    /\ calls.pc = "download_stablishment"
    /\ \E answer \in Answers, disk \in {"ok", "failed"} :
           LET cnes_code == Head(calls.todo)
               done == download_stablishment(answer, disk,
                                             calls.cache.json[cnes_code])
           IN  calls' =
                   IF done.outcome.status = "raised"
                   THEN [calls EXCEPT !.retried = TRUE]
                   ELSE [calls EXCEPT !.pc = "process_general_info",
                                      !.cache.json[cnes_code] = done.file,
                                      !.downloaded = @ \cup {cnes_code}]
    /\ UNCHANGED <<general_infos, service_records, medical_services, request,
                   unit_list, response>>

\* populate_general_info: process_general_info(...) and
\* populate_db_from_object(general_info) for the code just downloaded
StoreGeneralInfo ==
    /\ calls.pc = "process_general_info"
    /\ LET cnes_code == Head(calls.todo)
           general_info == process_general_info(cnes_code,
                                                calls.cache.json[cnes_code])
       IN  IF general_info.status = "raised"
           THEN /\ calls' = Abort(calls, general_info.error)
                /\ UNCHANGED <<general_infos, service_records, medical_services>>
           ELSE LET stored == populate_db_from_object(Tables, general_info.body)
                IN  /\ SetTables(stored.tables)
                    /\ calls' = StoreNext(calls, 4, stored,
                                          "download_stablishment", "if 5")
    /\ UNCHANGED <<request, unit_list, response>>

\* "if args.skip_to <= 5: clean_cache()", then the script ends
CleanCache ==
    /\ calls.pc = "if 5"
    /\ calls' = [calls EXCEPT !.pc = "finished", !.cache = EmptyCache,
                              !.log = @ \o <<Started(5), Finished(5)>>]
    /\ UNCHANGED <<general_infos, service_records, medical_services, request,
                   unit_list, response>>

\* The process is stopped from outside, or the database connection is lost
Interrupt ==
    /\ calls.pc \notin {"idle", "exited", "finished", "aborted"}
    /\ calls' = Abort(calls, "Interrupted")
    /\ UNCHANGED <<general_infos, service_records, medical_services, request,
                   unit_list, response>>

NextPopulate ==
    \/ RunPopulator
    \/ CheckPopulated
    \/ DownloadData
    \/ ReadData
    \/ BeginMedicalServices
    \/ PopulateMedicalServices
    \/ BeginServiceRecords
    \/ PopulateServiceRecords
    \/ BeginGeneralInfo
    \/ DownloadStablishment
    \/ StoreGeneralInfo
    \/ CleanCache
    \/ Interrupt

SpecPopulate == InitPopulate /\ [][NextPopulate]_vars


(***************************************************************************)
(* Properties of the populator                                             *)
(***************************************************************************)

\* the log of a run that carries out steps n..5 in order, each to completion
ExpectedLog(n) ==
    [i \in 1..(2 * (6 - n)) |->
        IF i % 2 = 1 THEN Started(n + ((i - 1) \div 2))
                     ELSE Finished(n + ((i - 2) \div 2))]

Logged(event) == \E i \in 1..Len(calls.log) : calls.log[i] = event

\* failures that come from outside the populator
OutsideErrors == {"Interrupted", "ConnectionError", "OSError", "FileNotFoundError"}

\* the run found no GeneralInfo row
OnUnpopulated == calls.pc /= "idle" /\ calls.before.g = {}

\* the run found a GeneralInfo row
OnPopulated == calls.pc /= "idle" /\ calls.before.g /= {}

\* C23: run on an unpopulated database with --skip-to N, the populator skips
\* the steps below N and carries out steps N..5 in increasing order, each to
\* completion before the next starts, the cache cleaned last; only a failure
\* from outside stops it.
C23_StepsInOrder ==
    OnUnpopulated =>
        /\ calls.pc /= "exited"
        /\ IsPrefix(calls.log, ExpectedLog(calls.skip_to))
        /\ calls.pc = "finished" => calls.log = ExpectedLog(calls.skip_to)
        /\ calls.pc = "aborted" => calls.error \in OutsideErrors

\* C24: a run that finds a GeneralInfo row exits at once: no step is started,
\* nothing is downloaded, the three tables and the cache stay as found.
C24_PopulatedRunExits ==
    OnPopulated =>
        /\ calls.pc \in {"check", "exited", "aborted"}
        /\ calls.pc = "aborted" => calls.error = "Interrupted"
        /\ calls.log = <<>>
        /\ calls.downloaded = {}
        /\ ~calls.retried
        /\ general_infos = calls.before.g
        /\ service_records = calls.before.s
        /\ medical_services = calls.before.m
        /\ calls.cache = calls.before.cache

\* a run has exited on a database that holds establishments, services and a
\* cache
C24_Witness ==
    /\ OnPopulated
    /\ calls.pc = "exited"
    /\ medical_services /= <<>>
    /\ service_records /= <<>>
    /\ calls.cache.csv

StoredCodes == {u.cnes : u \in general_infos}

\* C25: populate_general_info never skips a code: each establishment is
\* stored only after a download of its code has returned, and once every
\* download has returned the step ends with one GeneralInfo per code of the
\* dataset; only a failure from outside stops it.
C25_EveryCodeStored ==
    (OnUnpopulated /\ Logged(Started(4)) /\ calls.elasticnes /= None) =>
        /\ StoredCodes \subseteq calls.downloaded
        /\ Logged(Finished(4)) => StoredCodes = cnes_codes(calls.elasticnes[1])
        /\ calls.pc = "aborted" => calls.error \in OutsideErrors

CatalogComplete(data) ==
    \A k \in 1..Len(data) :
        HasKey(medical_services, int(split(data[k].SERVICO)[1]),
               int(split(data[k].SERVICO_CLASSIFICACAO)[1]))

RecordsComplete(data) ==
    \A k \in 1..Len(data) :
        \E j \in 1..Len(service_records) :
            /\ service_records[j].cnes = data[k].CNES
            /\ service_records[j].service = int(split(data[k].SERVICO)[1])
            /\ service_records[j].classification =
                   int(split(data[k].SERVICO_CLASSIFICACAO)[1])

\* C28: a run that skips because the database is populated finds every
\* catalog entry, every service record and every establishment of the
\* dataset stored.
C28_SkipFindsCompleteData ==
    calls.pc = "exited" =>
        /\ CatalogComplete(request.data)
        /\ RecordsComplete(request.data)
        /\ cnes_codes(request.data) \subseteq StoredCodes

\* the run started at step 0 on an empty database
FromStepZeroOnEmpty ==
    /\ calls.pc /= "idle"
    /\ calls.skip_to = 0
    /\ calls.before.g = {}
    /\ calls.before.s = <<>>
    /\ calls.before.m = <<>>

\* C29: in a run started at step 0 on an empty database, every stored
\* ServiceRecord has the key of a stored MedicalService, and no commit is
\* refused for a missing catalog entry.
C29_ReferentialIntegrity ==
    FromStepZeroOnEmpty =>
        /\ \A k \in 1..Len(service_records) :
               HasKey(medical_services, service_records[k].service,
                      service_records[k].classification)
        /\ calls.error /= "IntegrityError: foreign key"

\* such a run has stored the records of two different catalog entries
C29_Witness ==
    /\ FromStepZeroOnEmpty
    /\ Len(medical_services) = 2
    /\ Len(service_records) = 2
    /\ service_records[1].classification /= service_records[2].classification

\* the codes downloaded in this run whose file cannot be loaded
Unloadable == {c \in calls.downloaded : calls.cache.json[c] = "not json"}

\* C30: an establishment whose file cannot be loaded does not stop the
\* ingestion: nothing is stored for it, the run goes on and the step ends
\* with every other establishment stored.
C30_UnloadableFileSkipped ==
    (OnUnpopulated /\ Unloadable /= {}) =>
        /\ StoredCodes \cap Unloadable = {}
        /\ calls.pc = "aborted" => calls.error \in OutsideErrors
        /\ Logged(Finished(4)) =>
               StoredCodes = cnes_codes(calls.elasticnes[1]) \ Unloadable

====
